---- MODULE Spec2Model ----
(***************************************************************************)
(* Model of the cold-case ingest pipeline:                                 *)
(*   ingest/fetch.py   findRecord, getURLs, downloadPDFs, pullAllData      *)
(*   ingest/parse.py   extract, upsert_cold_case, parseOne, parseAllPDFs   *)
(*   ingest/pending.py load_pending, write_pending, remove_processed       *)
(* Text is a sequence of one-character strings; Python None is None.       *)
(***************************************************************************)
EXTENDS Integers, Sequences, FiniteSets, TLC

\* a value no text equals: every other value of the model is a sequence of characters
None == <<"None">>

(***************************************************************************)
(* Bounds of the model.                                                    *)
(***************************************************************************)
MaxLinks == 2
MaxRuns == 2
MaxCrashes == 1
MaxSep == 3

(***************************************************************************)
(* Python str helpers used by the code.                                    *)
(***************************************************************************)
LowerCase == <<"a","b","c","d","e","f","g","h","i","j","k","l","m",
               "n","o","p","q","r","s","t","u","v","w","x","y","z">>
UpperCase == <<"A","B","C","D","E","F","G","H","I","J","K","L","M",
               "N","O","P","Q","R","S","T","U","V","W","X","Y","Z">>
Digits == <<"0","1","2","3","4","5","6","7","8","9">>

Range(s) == {s[i] : i \in 1..Len(s)}
IndexIn(c, s) == CHOOSE i \in 1..Len(s) : s[i] = c

IsLower(c) == c \in Range(LowerCase)
IsUpper(c) == c \in Range(UpperCase)
IsLetter(c) == IsLower(c) \/ IsUpper(c)
IsDigit(c) == c \in Range(Digits)
\* \s of the re module, over the characters the model uses
IsSpace(c) == c \in {" ", "\t", "\n"}

Upper(c) == IF IsLower(c) THEN UpperCase[IndexIn(c, LowerCase)] ELSE c
Lower(c) == IF IsUpper(c) THEN LowerCase[IndexIn(c, UpperCase)] ELSE c

\* str.lower()
LowerStr(s) == [i \in 1..Len(s) |-> Lower(s[i])]

\* str.title(): a letter is upper-cased after a non-letter, lower-cased after a letter
Title(s) ==
  [i \in 1..Len(s) |->
     IF i = 1 \/ ~IsLetter(s[i-1]) THEN Upper(s[i]) ELSE Lower(s[i])]

\* str.strip()
RECURSIVE LStrip(_)
LStrip(s) == IF s # <<>> /\ IsSpace(Head(s)) THEN LStrip(Tail(s)) ELSE s
RECURSIVE RStrip(_)
RStrip(s) ==
  IF s # <<>> /\ IsSpace(s[Len(s)]) THEN RStrip(SubSeq(s, 1, Len(s)-1)) ELSE s
Strip(s) == RStrip(LStrip(s))

\* `pat in s`
StartsWith(s, pat) == Len(pat) <= Len(s) /\ SubSeq(s, 1, Len(pat)) = pat
Contains(s, pat) ==
  \E i \in 1..(Len(s) + 1) :
     i + Len(pat) - 1 <= Len(s) /\ SubSeq(s, i, i + Len(pat) - 1) = pat
EndsWith(s, pat) ==
  Len(pat) <= Len(s) /\ SubSeq(s, Len(s) - Len(pat) + 1, Len(s)) = pat

\* str.replace(old, new), old non-empty, left to right, non-overlapping
RECURSIVE Replace(_, _, _)
Replace(s, old, new) ==
  IF s = <<>> THEN <<>>
  ELSE IF StartsWith(s, old)
       THEN new \o Replace(SubSeq(s, Len(old) + 1, Len(s)), old, new)
       ELSE <<Head(s)>> \o Replace(Tail(s), old, new)

\* str.split(sep) for a one-character sep: a sequence of the pieces
RECURSIVE Split(_, _)
Split(s, sep) ==
  IF \A i \in 1..Len(s) : s[i] # sep THEN <<s>>
  ELSE LET k == CHOOSE i \in 1..Len(s) :
                  s[i] = sep /\ \A j \in 1..(i-1) : s[j] # sep
       IN <<SubSeq(s, 1, k-1)>> \o Split(SubSeq(s, k+1, Len(s)), sep)

\* int(s) raises ValueError unless s is a non-empty run of digits
\* (signs, underscores and surrounding blanks are outside the modelled inputs)
IsInt(s) == s # <<>> /\ \A i \in 1..Len(s) : IsDigit(s[i])
RECURSIVE IntOf(_)
IntOf(s) ==
  IF s = <<>> THEN 0
  ELSE 10 * IntOf(SubSeq(s, 1, Len(s)-1)) + (IndexIn(s[Len(s)], Digits) - 1)

PDF_EXT == <<".","p","d","f">>
SOLVED == <<"s","o","l","v","e","d">>
WARRANT == <<"w","a","r","r","a","n","t">>

NA == <<"N","/","A">>
COLD == <<"c","o","l","d">>
ENDASH == "u2013"   \* the one character U+2013

\* fetch.py: the delay of downloadPDFs, in seconds
RATE_LIMIT_SECONDS == 1

(***************************************************************************)
(* parse.py: the field grammar of parseOne.  A document's recognised text  *)
(* is a record holding, per labelled pattern, the text that follows the    *)
(* label (what group(1) captures), or None when the label is absent:       *)
(*   caseTail  text after "Case #:"      line   a standalone line          *)
(*   victim, age, sex, race, location    rest of the labelled line         *)
(*   date      the capture of DATE_REGEX   synopsis  text up to blank line *)
(***************************************************************************)
\* extract(): match.group(1).strip() if match else None
extract(captured) == IF captured = None THEN None ELSE Strip(captured)

\* Python truthiness of an Optional[str]
Falsy(x) == x = None \/ x = <<>>

\* the separator class [\-\u2013\s] of CASE_REGEX
IsCaseSep(c) == c = "-" \/ c = ENDASH \/ IsSpace(c)

\* length of the longest run of digits of s starting at position i
RECURSIVE DigitRun(_, _)
DigitRun(s, i) ==
  IF i <= Len(s) /\ IsDigit(s[i]) THEN 1 + DigitRun(s, i + 1) ELSE 0

\* CASE_REGEX group: \d{2,4} [\-\u2013\s] \d+  (greedy, with backtracking on the year)
CaseCapture(tail) ==
  IF tail = None THEN None
  ELSE LET ks == {k \in 2..4 : /\ DigitRun(tail, 1) >= k
                               /\ Len(tail) >= k + 2
                               /\ IsCaseSep(tail[k+1])
                               /\ IsDigit(tail[k+2])}
       IN IF ks = {} THEN None
          ELSE LET k == CHOOSE x \in ks : \A y \in ks : y <= x
               IN SubSeq(tail, 1, k + 1 + DigitRun(tail, k + 2))

\* CASE_FALLBACK_REGEX group: ^\s*(\d{4}-\d{5,6})\s*$
FallbackCapture(line) ==
  IF line = None THEN None
  ELSE LET t == Strip(line)
       IN IF /\ DigitRun(t, 1) = 4
             /\ Len(t) >= 6 /\ t[5] = "-"
             /\ DigitRun(t, 6) \in {5, 6}
             /\ Len(t) = 5 + DigitRun(t, 6)
          THEN t ELSE None

\* case_number_norm: en dash -> hyphen, space -> hyphen
NormCase(raw) == Replace(Replace(raw, <<ENDASH>>, <<"-">>), <<" ">>, <<"-">>)

\* str(int(s)): the canonical decimal digits of an integer
RECURSIVE CanonInt(_)
CanonInt(s) == IF Len(s) > 1 /\ Head(s) = "0" THEN CanonInt(Tail(s)) ELSE s

\* age_norm: int(age_raw) if age_raw else None, None on ValueError
AgeNorm(age_raw) ==
  IF Falsy(age_raw) THEN None
  ELSE IF IsInt(age_raw) THEN CanonInt(age_raw) ELSE None

SexNormRaw(sex_raw) ==
  LET sex_key == IF Falsy(sex_raw) THEN None ELSE Title(Strip(sex_raw))
  IN IF sex_key = <<"F","e","m","a","l","e">> THEN <<"F">>
     ELSE IF sex_key = <<"M","a","l","e">> THEN <<"M">>
     ELSE sex_key

\* sex_map.get(sex_key, "N/A")
SexNorm(sex_raw) ==
  LET sex_key == IF Falsy(sex_raw) THEN None ELSE Title(Strip(sex_raw))
  IN IF sex_key = <<"F","e","m","a","l","e">> THEN <<"F">>
     ELSE IF sex_key = <<"M","a","l","e">> THEN <<"M">>
     ELSE NA

WHITE == <<"W","h","i","t","e">>
BLACK == <<"B","l","a","c","k">>
HISPANIC == <<"H","i","s","p","a","n","i","c">>
ASIAN == <<"A","s","i","a","n">>
PACIFIC == <<"P","a","c","i","f","i","c"," ","I","s","l","a","n","d","e","r">>
NATIVE == <<"N","a","t","i","v","e"," ","A","m","e","r","i","c","a","n">>
CAUCASIAN == <<"C","a","u","c","a","s","i","a","n">>
OTHER_RACE == <<"O","t","h","e","r">>

\* race_map.get(race_key, "Other")
RaceNorm(race_raw) ==
  LET race_key == IF Falsy(race_raw) THEN None ELSE Title(Strip(race_raw))
  IN IF race_key \in {WHITE, BLACK, HISPANIC, ASIAN, PACIFIC, NATIVE} THEN race_key
     ELSE IF race_key = CAUCASIAN THEN WHITE
     ELSE OTHER_RACE

\* datetime.strptime(s, "%m/%d/%Y"): ValueError unless a calendar date
IsLeap(y) == (y % 4 = 0 /\ y % 100 # 0) \/ y % 400 = 0
DaysIn(m, y) ==
  IF m = 2 THEN (IF IsLeap(y) THEN 29 ELSE 28)
  ELSE IF m \in {4, 6, 9, 11} THEN 30 ELSE 31

DateClean(raw) == Replace(Replace(raw, <<" ">>, <<>>), <<"-">>, <<"/">>)

StrptimeOk(clean) ==
  LET p == Split(clean, "/")
  IN /\ Len(p) = 3
     /\ IsInt(p[1]) /\ Len(p[1]) <= 2
     /\ IsInt(p[2]) /\ Len(p[2]) <= 2
     /\ IsInt(p[3]) /\ Len(p[3]) = 4
     /\ IntOf(p[1]) \in 1..12
     /\ IntOf(p[3]) >= 1
     /\ IntOf(p[2]) \in 1..DaysIn(IntOf(p[1]), IntOf(p[3]))

Pad2(s) == IF Len(s) = 1 THEN <<"0">> \o s ELSE s

\* the date value, written YYYY-MM-DD
Strptime(clean) ==
  LET p == Split(clean, "/")
  IN p[3] \o <<"-">> \o Pad2(p[1]) \o <<"-">> \o Pad2(p[2])

\* extract("year", incident_date)
YearOf(date) == IntOf(SubSeq(date, 1, 4))

\* re.sub(r"\s+", " ", s).strip()
RECURSIVE CollapseWs(_)
CollapseWs(s) ==
  IF s = <<>> THEN <<>>
  ELSE IF IsSpace(Head(s))
       THEN <<" ">> \o CollapseWs(LStrip(s))
       ELSE <<Head(s)>> \o CollapseWs(Tail(s))
SynopsisNorm(raw) == IF Falsy(raw) THEN None ELSE Strip(CollapseWs(raw))

CaseNumberRaw(text) ==
  IF ~Falsy(extract(CaseCapture(text.caseTail)))
  THEN extract(CaseCapture(text.caseTail))
  ELSE extract(FallbackCapture(text.line))

\* the dictionary parsed_case of parseOne (built when no early return is taken)
ParsedCase(text, status) ==
  [case_number   |-> NormCase(CaseNumberRaw(text)),
   victim        |-> IF Falsy(extract(text.victim)) THEN None
                     ELSE Title(Strip(extract(text.victim))),
   age           |-> AgeNorm(extract(text.age)),
   sex           |-> SexNorm(extract(text.sex)),
   race          |-> RaceNorm(extract(text.race)),
   incident_date |-> Strptime(DateClean(extract(text.date))),
   location      |-> Strip(extract(text.location)),
   synopsis      |-> SynopsisNorm(extract(text.synopsis)),
   status        |-> status]

\* how parseOne ends for a recognised text: the early returns and the raise, in code order
ParseOutcome(text) ==
  IF Falsy(CaseNumberRaw(text)) THEN "nocase"
  ELSE IF Falsy(extract(text.date)) THEN "nodate"
  ELSE IF ~StrptimeOk(DateClean(extract(text.date))) THEN "ValueError"
  ELSE IF Falsy(extract(text.location)) THEN "noloc"
  ELSE "ok"

(***************************************************************************)
(* The Record Store: a function from case_number (the primary key of       *)
(* models.ColdCase) to the stored row.                                     *)
(***************************************************************************)
Columns == {"case_number", "victim", "age", "sex", "race",
            "incident_date", "location", "synopsis", "status"}

EmptyStore == [k \in {} |-> None]

\* models.py: incident_date and location are nullable=False, case_number the key
NotNullOk(row) ==
  row.case_number # None /\ row.incident_date # None /\ row.location # None

\* ON CONFLICT (case_number) DO UPDATE SET col = excluded.col, for the columns of
\* update_cols: every column but case_number whose incoming value is not None
UpdateRow(existing, parsed_case) ==
  [col \in Columns |->
     IF col # "case_number" /\ parsed_case[col] # None
     THEN parsed_case[col] ELSE existing[col]]

UpsertAccumulating(s, parsed_case) ==
  IF parsed_case.case_number \in DOMAIN s
  THEN [s EXCEPT ![parsed_case.case_number] =
          [UpdateRow(@, parsed_case) EXCEPT
             !.synopsis = IF @ = None \/ s[parsed_case.case_number].synopsis = None
                          THEN @
                          ELSE s[parsed_case.case_number].synopsis \o @]]
  ELSE [k \in DOMAIN s \cup {parsed_case.case_number} |->
          IF k = parsed_case.case_number THEN parsed_case ELSE s[k]]

UpsertOverwriting(s, parsed_case) ==
  [k \in DOMAIN s \cup {parsed_case.case_number} |->
     IF k = parsed_case.case_number THEN parsed_case ELSE s[k]]

\* upsert_cold_case: the store after the statement (the statement raises, and
\* writes nothing, when UpsertRaises)
upsert_cold_case(s, parsed_case) ==
  IF parsed_case.case_number \in DOMAIN s
  THEN [s EXCEPT ![parsed_case.case_number] = UpdateRow(@, parsed_case)]
  ELSE [k \in DOMAIN s \cup {parsed_case.case_number} |->
          IF k = parsed_case.case_number THEN parsed_case ELSE s[k]]

UpsertRaises(parsed_case) == ~NotNullOk(parsed_case)

(***************************************************************************)
(* fetch.py: findRecord.                                                   *)
(***************************************************************************)
\* the year windowing: [ok, year]; ok is FALSE on the two early returns
YearWindow(pdfName) ==
  LET yearName == Split(pdfName, "-")
  IN IF ~IsInt(yearName[1]) THEN [ok |-> FALSE, year |-> 0]
     ELSE LET year == IntOf(yearName[1])
          IN IF year < 70
             THEN [ok |-> TRUE,
                   year |-> IF year < 10 THEN 2000 + year ELSE 2000 + year]
             ELSE IF 70 <= year /\ year <= 99 THEN [ok |-> TRUE, year |-> 1900 + year]
             ELSE [ok |-> FALSE, year |-> 0]

\* the rows the statement selects: victim ILIKE %lastName% and the year of incident_date
FindMatches(pdfName, s) ==
  LET yearName == Split(pdfName, "-")
      lastName == Replace(yearName[2], PDF_EXT, <<>>)
  IN {k \in DOMAIN s :
        /\ s[k].victim # None
        /\ Contains(LowerStr(s[k].victim), LowerStr(lastName))
        /\ YearOf(s[k].incident_date) = YearWindow(pdfName).year}

\* findRecord: [raised, exists, status]; scalar_one_or_none raises on two rows
findRecord(pdfName, s) ==
  IF ~YearWindow(pdfName).ok
  THEN [raised |-> FALSE, exists |-> FALSE, status |-> NA]
  ELSE IF Len(Split(pdfName, "-")) < 2
  THEN [raised |-> TRUE, exists |-> FALSE, status |-> NA]
  ELSE LET rows == FindMatches(pdfName, s)
       IN IF Cardinality(rows) > 1
          THEN [raised |-> TRUE, exists |-> FALSE, status |-> NA]
          ELSE IF rows = {} \/ (\E k \in rows : s[k].status = None)
          THEN [raised |-> FALSE, exists |-> FALSE, status |-> NA]
          ELSE [raised |-> FALSE, exists |-> TRUE,
                status |-> s[CHOOSE k \in rows : TRUE].status]

(***************************************************************************)
(* pending.py: the persisted queue.  The file is absent, holds a JSON      *)
(* mapping (data: the leads in insertion order, keyed by name), or was     *)
(* opened for writing and not yet written ("torn": json.load raises).      *)
(***************************************************************************)
QueueAbsent == [state |-> "absent", data |-> <<>>]
QueueTorn == [state |-> "torn", data |-> <<>>]
QueueJson(cases) == [state |-> "json", data |-> cases]

Keys(cases) == {cases[j].name : j \in 1..Len(cases)}

\* cases[name] = lead on an insertion-ordered dict
DictSet(cases, lead) ==
  IF lead.name \in Keys(cases)
  THEN [j \in 1..Len(cases) |-> IF cases[j].name = lead.name THEN lead ELSE cases[j]]
  ELSE Append(cases, lead)

RECURSIVE DictRemove(_, _)
DictRemove(cases, keys) ==
  IF cases = <<>> THEN <<>>
  ELSE IF Head(cases).name \in keys THEN DictRemove(Tail(cases), keys)
       ELSE <<Head(cases)>> \o DictRemove(Tail(cases), keys)

remove_all(cases, processed_keys) == <<>>

\* remove_processed: pop every processed key
remove_processed(cases, processed_keys) == DictRemove(cases, Range(processed_keys))

\* load_pending on a readable file
load_pending(q) == IF q.state = "absent" THEN <<>> ELSE q.data

(***************************************************************************)
(* The remote site and the documents it serves.                            *)
(***************************************************************************)
BASE == <<"h","t","t","p","s",":","/","/","d">>

Surname1 == <<"S","m","i","t","h">>
Surname2 == <<"J","o","n","e","s">>
Doc1 == <<"1","4","-">> \o Surname1 \o PDF_EXT
Doc2 == <<"8","5","-">> \o Surname2 \o PDF_EXT
Names == {Doc1, Doc2}

Dirs == { <<"/">> \o SOLVED \o <<"/">>,
          <<"/">> \o WARRANT \o <<"/">>,
          <<"/","c","/">>,
          <<"/">> \o SOLVED \o <<"/">> \o WARRANT \o <<"/">> }
Hrefs == {dir \o n : dir \in Dirs, n \in Names}
            \cup { <<"/">> \o SOLVED \o <<"/","i",".","h","t","m">> }

\* recognised texts of the documents the site may serve
Text1 ==
  [caseTail |-> <<"2","0","1","4","-","0","0","2","3","1">>, line |-> None,
   victim |-> <<"j","o","h","n"," ","s","m","i","t","h">>,
   age |-> <<"0","3","1">>, sex |-> <<"m","a","l","e">>,
   race |-> <<"c","a","u","c","a","s","i","a","n">>,
   date |-> <<"0","3","-","1","4","-","2","0","1","4">>,
   location |-> <<"D","e","n","v","e","r">>,
   synopsis |-> <<"a"," "," ","b">>]
\* the same case, fewer fields recognised, en dash in the case number
Text2 ==
  [Text1 EXCEPT !.caseTail = <<"2","0","1","4",ENDASH,"0","0","2","3","1">>,
                !.victim = None, !.age = <<"3","O">>, !.sex = None,
                !.race = <<"x">>, !.synopsis = None,
                !.location = <<"A","u","r","o","r","a">>]
\* another case of the same surname and year, found by the fallback pattern
Text3 ==
  [Text1 EXCEPT !.caseTail = None,
                !.line = <<" ","2","0","1","4","-","0","0","9","9","9">>,
                !.victim = <<"A","N","N"," ","S","M","I","T","H">>,
                !.sex = <<"F","E","M","A","L","E">>]
TextJones ==
  [Text1 EXCEPT !.caseTail = <<"8","5"," ","7">>,
                !.victim = <<"j","o","n","e","s">>,
                !.date = <<"2"," ","/","2","8","/","1","9","8","5">>]
TextNoCase ==
  [Text1 EXCEPT !.caseTail = <<"2","0","1","4"," ",ENDASH," ","0","0","2","3","1">>]
TextNoDate == [Text1 EXCEPT !.date = None]
TextBadDate == [Text1 EXCEPT !.date = <<"1","3","/","4","5","/","2","0","1","4">>]
TextNoLocation == [Text1 EXCEPT !.location = <<" ">>]
\* a file pdf2image cannot convert: convert_from_path raises
Unconvertible == [Text1 EXCEPT !.caseTail = None, !.line = <<"!">>, !.date = None]

Texts == {Text1, Text2, Text3, TextJones, TextNoCase, TextNoDate, TextBadDate,
          TextNoLocation, Unconvertible}

EmptyCache == [n \in {} |-> Text1]

\* what the site serves for each document
Sites ==
  { [n \in Names |-> IF n = Doc1 THEN Text1 ELSE TextJones],
    [n \in Names |-> IF n = Doc1 THEN TextBadDate ELSE Text2],
    [n \in Names |-> IF n = Doc1 THEN TextNoLocation ELSE Text3] }

(***************************************************************************)
(* State.                                                                  *)
(***************************************************************************)
VARIABLES
  store,          \* the committed rows of cold_cases
  txn,            \* the rows as the open session sees them (uncommitted upserts)
  queue,          \* ingest/pending_cases.json
  cache,          \* coldCasePDFs: file name -> recognised text of the file
  site,           \* the remote site: document name -> recognised text of what it serves
  pc,             \* position of the running stage, "idle" between invocations
  cases,          \* the dict `cases` of the running stage
  i,              \* position of the running loop in cases
  downloaded,     \* the dict `downloaded` of downloadPDFs
  processed_keys, \* the list processed_keys of parseAllPDFs
  scanned,        \* links of the listing scanned so far
  runs,           \* stage invocations so far
  crashes,        \* process interruptions so far
  outcome,        \* how the last invocation ended
  error,          \* the exception the last invocation raised, "none" otherwise
  qBefore,        \* the persisted queue when the current invocation started
  storeBefore,    \* the committed rows when the current invocation started
  fetchFailed,    \* names whose retrieval failed or was rejected in this pullAllData
  parseFailed,    \* names for which parseOne returned False in this parseAllPDFs
  lastScan,       \* what getURLs did with the last link it scanned
  lastParse,      \* what parseOne did with the last lead it was given
  committed,      \* session.commit() has returned in this parseAllPDFs
  crashAt,        \* pc at the last interruption
  epoch,          \* store and queue when the current series of extraction runs began
  epochOpen,      \* the last extraction run of the series did not complete
  probe,          \* inputs of the function under study (SpecFind, SpecUpsert)
  result,         \* its results
  cacheBefore,    \* the cached files when the current invocation started
  crawled,        \* the mapping getURLs returned in this pullAllData
  requested,      \* names requests.get was called for in this downloadPDFs
  sinceRequest    \* seconds slept since the last of these calls returned

vars == <<store, txn, queue, cache, site, pc, cases, i, downloaded, processed_keys,
          scanned, runs, crashes, outcome, error, qBefore, storeBefore,
          fetchFailed, parseFailed, lastScan, lastParse, committed, crashAt,
          epoch, epochOpen, probe, result, cacheBefore, crawled, requested,
          sinceRequest>>

study == <<probe, result, site>>
pure == <<probe, result, site, cacheBefore, crawled, requested, sinceRequest>>
counters == <<runs, crashes>>

NoScan == [href |-> <<>>, pdf |-> FALSE, raised |-> FALSE, exists |-> FALSE,
           status |-> NA, emitted |-> FALSE, source_status |-> NA]
NoParse == [name |-> <<>>, why |-> "none", wrote |-> FALSE]
NoProbe == [kind |-> "none"]

\* the state between invocations with the persistent state (s, q, c)
Idle(s, q, c, docs) ==
  /\ store = s /\ txn = s
  /\ queue = q
  /\ cache = c
  /\ site = docs
  /\ pc = "idle"
  /\ cases = <<>> /\ i = 0 /\ downloaded = <<>> /\ processed_keys = <<>>
  /\ scanned = 0 /\ runs = 0 /\ crashes = 0
  /\ outcome = "none" /\ error = "none"
  /\ qBefore = q /\ storeBefore = s
  /\ fetchFailed = {} /\ parseFailed = {}
  /\ lastScan = NoScan /\ lastParse = NoParse
  /\ committed = FALSE /\ crashAt = "none"
  /\ epoch = [store |-> s, queue |-> q] /\ epochOpen = FALSE
  /\ cacheBefore = c /\ crawled = <<>> /\ requested = {} /\ sinceRequest = 0

\* no function is under study
NoStudy == probe = NoProbe /\ result = NoProbe

\* a fresh installation: no row, no queue file, no cached document
Init ==
  /\ \E docs \in Sites : Idle(EmptyStore, QueueAbsent, EmptyCache, docs)
  /\ NoStudy

\* an invocation begins: the history of the previous one is forgotten
Begin(stage) ==
  /\ pc = "idle" /\ runs < MaxRuns
  /\ runs' = runs + 1
  /\ pc' = stage
  /\ outcome' = "running" /\ error' = "none"
  /\ qBefore' = queue /\ storeBefore' = store
  /\ fetchFailed' = {} /\ parseFailed' = {}
  /\ lastScan' = NoScan /\ lastParse' = NoParse
  /\ committed' = FALSE /\ crashAt' = "none"
  /\ txn' = store
  /\ downloaded' = <<>> /\ processed_keys' = <<>> /\ scanned' = 0
  /\ cacheBefore' = cache /\ crawled' = <<>>
  /\ requested' = {} /\ sinceRequest' = 0
  /\ UNCHANGED <<store, cache, crashes, study>>

\* an invocation ends: session.close() discards what was not committed
End(how, exc) ==
  /\ pc' = "idle" /\ outcome' = how /\ error' = exc
  /\ cases' = <<>> /\ i' = 0 /\ downloaded' = <<>> /\ scanned' = 0

(***************************************************************************)
(* fetch.py: pullAllData = getURLs ; downloadPDFs ; write_pending.         *)
(***************************************************************************)
PullStart ==
  /\ Begin("getURLs")
  /\ cases' = <<>> /\ i' = 0
  /\ epochOpen' = FALSE
  /\ UNCHANGED <<queue, epoch>>

\* requests.get or raise_for_status raises RequestException: return {}
GetURLsError ==
  /\ pc = "getURLs"
  /\ pc' = "download" /\ cases' = <<>> /\ i' = 1
  /\ crawled' = <<>>
  /\ UNCHANGED <<store, txn, queue, cache, downloaded, processed_keys, scanned,
                 counters, outcome, error, qBefore, storeBefore, fetchFailed,
                 parseFailed, lastScan, lastParse, committed, crashAt, epoch,
                 epochOpen, study, cacheBefore, requested, sinceRequest>>

\* a successful status other than 200: getURLs falls off its end and returns None,
\* downloadPDFs raises AttributeError on cases.items()
GetURLsNot200 ==
  /\ pc = "getURLs"
  /\ End("pull_raised", "AttributeError")
  /\ txn' = store
  /\ UNCHANGED <<store, queue, cache, processed_keys, counters, qBefore,
                 storeBefore, fetchFailed, parseFailed, lastScan, lastParse,
                 committed, crashAt, epoch, epochOpen, pure>>

GetURLsOk ==
  /\ pc = "getURLs"
  /\ pc' = "scan" /\ cases' = <<>> /\ scanned' = 0
  /\ UNCHANGED <<store, txn, queue, cache, i, downloaded, processed_keys,
                 counters, outcome, error, qBefore, storeBefore, fetchFailed,
                 parseFailed, lastScan, lastParse, committed, crashAt, epoch,
                 epochOpen, pure>>

\* pdfUrl.split("/")[-1]
LastSegment(url) == Split(url, "/")[Len(Split(url, "/"))]

Lead(pdfUrl, status) ==
  [url |-> pdfUrl, name |-> LastSegment(pdfUrl), source_status |-> status]

EmitAlways(pdfUrl, found) ==
  IF Contains(pdfUrl, SOLVED) THEN SOLVED
  ELSE IF Contains(pdfUrl, WARRANT) THEN WARRANT
  ELSE COLD

\* the if/elif/elif of the loop body of getURLs: the source_status of the lead
\* it adds for pdfUrl, None when it adds none
Emit(pdfUrl, found) ==
  IF Contains(pdfUrl, SOLVED)
     /\ (~found.exists \/ (found.exists /\ found.status # SOLVED))
  THEN SOLVED
  ELSE IF Contains(pdfUrl, WARRANT)
          /\ (~found.exists \/ (found.exists /\ found.status # WARRANT))
  THEN WARRANT
  ELSE IF ~found.exists THEN COLD
  ELSE None

\* one iteration of the loop over allLinks
ScanLink ==
  /\ pc = "scan" /\ scanned < MaxLinks
  /\ \E href \in Hrefs :
       LET pdfUrl == BASE \o href
           pdfName == LastSegment(pdfUrl)
           isPdf == EndsWith(LowerStr(pdfUrl), PDF_EXT)
           found == findRecord(pdfName, store)
           emit == Emit(pdfUrl, found)
       IN IF ~isPdf
          THEN /\ lastScan' = [NoScan EXCEPT !.href = pdfUrl]
               /\ scanned' = scanned + 1
               /\ UNCHANGED <<pc, cases, outcome, error, i, downloaded, txn>>
          ELSE IF found.raised
          THEN /\ lastScan' = [NoScan EXCEPT !.href = pdfUrl, !.pdf = TRUE,
                                             !.raised = TRUE]
               /\ End("pull_raised", "MultipleResultsFound")
               /\ txn' = store
          ELSE /\ lastScan' = [href |-> pdfUrl, pdf |-> TRUE, raised |-> FALSE,
                               exists |-> found.exists, status |-> found.status,
                               emitted |-> emit # None,
                               source_status |-> IF emit = None THEN NA ELSE emit]
               /\ cases' = IF emit = None THEN cases
                           ELSE DictSet(cases, Lead(pdfUrl, emit))
               /\ scanned' = scanned + 1
               /\ UNCHANGED <<pc, outcome, error, i, downloaded, txn>>
  /\ UNCHANGED <<store, queue, cache, processed_keys, counters, qBefore,
                 storeBefore, fetchFailed, parseFailed, lastParse, committed,
                 crashAt, epoch, epochOpen, pure>>

\* the listing is exhausted (or held no link): return cases
ScanDone ==
  /\ pc = "scan"
  /\ pc' = "download" /\ i' = 1 /\ downloaded' = <<>>
  /\ crawled' = cases
  /\ UNCHANGED <<store, txn, queue, cache, cases, processed_keys, scanned,
                 counters, outcome, error, qBefore, storeBefore, fetchFailed,
                 parseFailed, lastScan, lastParse, committed, crashAt, epoch,
                 epochOpen, study, cacheBefore, requested, sinceRequest>>

\* the lead the download loop is at
Current == cases[i]

DownloadCachedRefetch ==
  /\ pc = "download" /\ i <= Len(cases)
  /\ Current.name \in DOMAIN cache
  /\ cache' = [cache EXCEPT ![Current.name] = site[Current.name]]
  /\ requested' = requested \cup {Current.name}
  /\ sinceRequest' = RATE_LIMIT_SECONDS
  /\ downloaded' = DictSet(downloaded, Current)
  /\ i' = i + 1
  /\ UNCHANGED <<store, txn, queue, pc, cases, processed_keys, scanned,
                 counters, outcome, error, qBefore, storeBefore, fetchFailed,
                 parseFailed, lastScan, lastParse, committed, crashAt, epoch,
                 epochOpen, study, cacheBefore, crawled>>

\* os.path.exists(filepath): keep the lead, no request
DownloadCached ==
  /\ pc = "download" /\ i <= Len(cases)
  /\ Current.name \in DOMAIN cache
  /\ downloaded' = DictSet(downloaded, Current)
  /\ i' = i + 1
  /\ UNCHANGED <<store, txn, queue, cache, pc, cases, processed_keys, scanned,
                 counters, outcome, error, qBefore, storeBefore, fetchFailed,
                 parseFailed, lastScan, lastParse, committed, crashAt, epoch,
                 epochOpen, pure>>

\* a 2xx response declaring application/pdf: the bytes are written, the lead
\* kept, and time.sleep(RATE_LIMIT_SECONDS) follows
DownloadOk ==
  /\ pc = "download" /\ i <= Len(cases)
  /\ Current.name \notin DOMAIN cache
  /\ cache' = [n \in DOMAIN cache \cup {Current.name} |->
                IF n = Current.name THEN site[n] ELSE cache[n]]
  /\ downloaded' = DictSet(downloaded, Current)
  /\ requested' = requested \cup {Current.name}
  /\ sinceRequest' = RATE_LIMIT_SECONDS
  /\ i' = i + 1
  /\ UNCHANGED <<store, txn, queue, pc, cases, processed_keys, scanned,
                 counters, outcome, error, qBefore, storeBefore, fetchFailed,
                 parseFailed, lastScan, lastParse, committed, crashAt, epoch,
                 epochOpen, study, cacheBefore, crawled>>

DownloadFailedCaches ==
  /\ pc = "download" /\ i <= Len(cases)
  /\ Current.name \notin DOMAIN cache
  /\ fetchFailed' = fetchFailed \cup {Current.name}
  /\ cache' = [n \in DOMAIN cache \cup {Current.name} |->
                IF n = Current.name THEN Unconvertible ELSE cache[n]]
  /\ requested' = requested \cup {Current.name}
  /\ sinceRequest' = 0
  /\ i' = i + 1
  /\ UNCHANGED <<store, txn, queue, pc, cases, downloaded, processed_keys,
                 scanned, counters, outcome, error, qBefore, storeBefore,
                 parseFailed, lastScan, lastParse, committed, crashAt, epoch,
                 epochOpen, study, cacheBefore, crawled>>

\* RequestException (network error, timeout, HTTP error status) or a response of
\* another content type: print and continue (past the sleep), the lead is not
\* added to downloaded
DownloadFailed ==
  /\ pc = "download" /\ i <= Len(cases)
  /\ Current.name \notin DOMAIN cache
  /\ \E why \in {"RequestException", "not application/pdf"} :
       fetchFailed' = fetchFailed \cup {Current.name}
  /\ requested' = requested \cup {Current.name}
  /\ sinceRequest' = 0
  /\ i' = i + 1
  /\ UNCHANGED <<store, txn, queue, cache, pc, cases, downloaded, processed_keys,
                 scanned, counters, outcome, error, qBefore, storeBefore,
                 parseFailed, lastScan, lastParse, committed, crashAt, epoch,
                 epochOpen, study, cacheBefore, crawled>>

\* return downloaded; write_pending(cases) opens the file for writing (truncating it)
PullWriteOpen ==
  /\ pc = "download" /\ i > Len(cases)
  /\ pc' = "pull_dump"
  /\ cases' = downloaded
  /\ queue' = QueueTorn
  /\ UNCHANGED <<store, txn, cache, i, downloaded, processed_keys, scanned,
                 counters, outcome, error, qBefore, storeBefore, fetchFailed,
                 parseFailed, lastScan, lastParse, committed, crashAt, epoch,
                 epochOpen, pure>>

\* json.dump and close; finally: session.close()
PullWriteDump ==
  /\ pc = "pull_dump"
  /\ queue' = QueueJson(cases)
  /\ End("pull_done", "none")
  /\ txn' = store
  /\ UNCHANGED <<store, cache, processed_keys, counters, qBefore, storeBefore,
                 fetchFailed, parseFailed, lastScan, lastParse, committed,
                 crashAt, epoch, epochOpen, pure>>

(***************************************************************************)
(* parse.py: parseOne and parseAllPDFs.                                    *)
(***************************************************************************)
parseOnePartial(t, case, files) ==
  IF case.name \notin DOMAIN files
  THEN [ret |-> "False", txn |-> t, why |-> "nofile"]
  ELSE LET text == files[case.name]
           how == ParseOutcome(text)
       IN IF text = Unconvertible
          THEN [ret |-> "raise", txn |-> t, why |-> "ConvertError"]
          ELSE IF how = "ValueError"
          THEN [ret |-> "raise", txn |-> t, why |-> "ValueError"]
          ELSE IF how = "ok"
          THEN [ret |-> "True", why |-> "ok",
                txn |-> upsert_cold_case(t, ParsedCase(text, case.source_status))]
          ELSE IF how = "noloc"
          THEN [ret |-> "False", why |-> how,
                txn |-> upsert_cold_case(t,
                          [ParsedCase(text, case.source_status)
                             EXCEPT !.location = None])]
          ELSE [ret |-> "False", txn |-> t, why |-> how]

\* parseOne on the session state t: what it returns ("True", "False") or that it
\* raises, the session state it leaves, and why
parseOne(t, case, files) ==
  IF case.name \notin DOMAIN files
  THEN [ret |-> "False", txn |-> t, why |-> "nofile"]
  ELSE LET text == files[case.name]
           how == ParseOutcome(text)
       IN IF text = Unconvertible
          THEN [ret |-> "raise", txn |-> t, why |-> "ConvertError"]
          ELSE IF how = "ValueError"
          THEN [ret |-> "raise", txn |-> t, why |-> "ValueError"]
          ELSE IF how = "ok"
          THEN [ret |-> "True", why |-> "ok",
                txn |-> upsert_cold_case(t, ParsedCase(text, case.source_status))]
          ELSE [ret |-> "False", txn |-> t, why |-> how]

\* session = SessionLocal()
ParseStart ==
  /\ Begin("load")
  /\ cases' = <<>> /\ i' = 0
  /\ epoch' = IF epochOpen THEN epoch ELSE [store |-> store, queue |-> queue]
  /\ epochOpen' = TRUE
  /\ UNCHANGED <<queue>>

\* except Exception: session.rollback(); raise; finally: session.close()
Raise(exc) ==
  /\ End("parse_raised", exc)
  /\ txn' = store
  /\ UNCHANGED <<store>>

\* cases = load_pending(): json.load raises on a file that was truncated and
\* never written
ParseLoad ==
  /\ pc = "load"
  /\ IF queue.state = "torn"
     THEN /\ Raise("JSONDecodeError")
          /\ UNCHANGED <<processed_keys>>
     ELSE /\ cases' = load_pending(queue) /\ i' = 1 /\ pc' = "parse"
          /\ processed_keys' = <<>>
          /\ UNCHANGED <<store, txn, downloaded, scanned, outcome, error>>
  /\ UNCHANGED <<queue, cache, counters, qBefore, storeBefore, fetchFailed,
                 parseFailed, lastScan, lastParse, committed, crashAt, epoch,
                 epochOpen, pure>>

\* one iteration of the loop of parseAllPDFs: success = parseOne(session, case)
ParseOneStep ==
  /\ pc = "parse" /\ i <= Len(cases)
  /\ LET r == parseOne(txn, Current, cache)
     IN /\ lastParse' = [name |-> Current.name, why |-> r.why,
                         wrote |-> r.txn # txn]
        /\ IF r.ret = "raise"
           THEN /\ Raise(r.why)
                /\ UNCHANGED <<processed_keys, parseFailed>>
           ELSE /\ txn' = r.txn
                /\ processed_keys' = IF r.ret = "True"
                                     THEN Append(processed_keys, Current.name)
                                     ELSE processed_keys
                /\ parseFailed' = IF r.ret = "True" THEN parseFailed
                                  ELSE parseFailed \cup {Current.name}
                /\ i' = i + 1
                /\ UNCHANGED <<store, pc, cases, downloaded, scanned, outcome, error>>
  /\ UNCHANGED <<queue, cache, counters, qBefore, storeBefore, fetchFailed,
                 lastScan, committed, crashAt, epoch, epochOpen, pure>>

\* session.execute(stmt) raises (the store fails) where parseOne would upsert
ParseOneStoreError ==
  /\ pc = "parse" /\ i <= Len(cases)
  /\ parseOne(txn, Current, cache).ret = "True"
  /\ lastParse' = [name |-> Current.name, why |-> "StoreError", wrote |-> FALSE]
  /\ Raise("StoreError")
  /\ UNCHANGED <<queue, cache, processed_keys, counters, qBefore, storeBefore,
                 fetchFailed, parseFailed, lastScan, committed, crashAt, epoch,
                 epochOpen, pure>>

\* session.commit() returns: the session's rows become the committed rows
ParseCommit ==
  /\ pc = "parse" /\ i > Len(cases)
  /\ store' = txn
  /\ committed' = TRUE
  /\ pc' = "parse_write"
  /\ UNCHANGED <<txn, queue, cache, cases, i, downloaded, processed_keys,
                 scanned, counters, outcome, error, qBefore, storeBefore,
                 fetchFailed, parseFailed, lastScan, lastParse, crashAt, epoch,
                 epochOpen, pure>>

ParseCommitFailKeepsWrites ==
  /\ pc = "parse" /\ i > Len(cases)
  /\ End("parse_raised", "StoreError")
  /\ store' = txn /\ txn' = txn
  /\ UNCHANGED <<queue, cache, processed_keys, counters, qBefore, storeBefore,
                 fetchFailed, parseFailed, lastScan, lastParse, committed,
                 crashAt, epoch, epochOpen, pure>>

\* session.commit() raises: nothing is committed
ParseCommitFail ==
  /\ pc = "parse" /\ i > Len(cases)
  /\ Raise("StoreError")
  /\ UNCHANGED <<queue, cache, processed_keys, counters, qBefore, storeBefore,
                 fetchFailed, parseFailed, lastScan, lastParse, committed,
                 crashAt, epoch, epochOpen, pure>>

\* remove_processed(cases, processed_keys); write_pending opens the file
ParseWriteOpen ==
  /\ pc = "parse_write"
  /\ cases' = remove_processed(cases, processed_keys)
  /\ queue' = QueueTorn
  /\ pc' = "parse_dump"
  /\ UNCHANGED <<store, txn, cache, i, downloaded, processed_keys, scanned,
                 counters, outcome, error, qBefore, storeBefore, fetchFailed,
                 parseFailed, lastScan, lastParse, committed, crashAt, epoch,
                 epochOpen, pure>>

\* json.dump and close; finally: session.close()
ParseWriteDump ==
  /\ pc = "parse_dump"
  /\ queue' = QueueJson(cases)
  /\ End("parse_done", "none")
  /\ txn' = store
  /\ epochOpen' = FALSE
  /\ UNCHANGED <<store, cache, processed_keys, counters, qBefore, storeBefore,
                 fetchFailed, parseFailed, lastScan, lastParse, committed,
                 crashAt, epoch, pure>>

(***************************************************************************)
(* The environment: the process is killed; a cached file is removed.       *)
(***************************************************************************)
\* the process dies: memory and the uncommitted session are lost, files stay
Crash ==
  /\ pc # "idle" /\ crashes < MaxCrashes
  /\ crashes' = crashes + 1
  /\ crashAt' = pc
  /\ End("crashed", "none")
  /\ txn' = store
  /\ UNCHANGED <<store, queue, cache, processed_keys, runs, qBefore,
                 storeBefore, fetchFailed, parseFailed, lastScan, lastParse,
                 committed, epoch, epochOpen, pure>>

Next ==
  \/ PullStart \/ GetURLsError \/ GetURLsNot200 \/ GetURLsOk
  \/ ScanLink \/ ScanDone
  \/ DownloadCached \/ DownloadOk \/ DownloadFailed
  \/ PullWriteOpen \/ PullWriteDump
  \/ ParseStart \/ ParseLoad \/ ParseOneStep \/ ParseOneStoreError
  \/ ParseCommit \/ ParseCommitFail
  \/ ParseWriteOpen \/ ParseWriteDump
  \/ Crash

Spec == Init /\ [][Next]_vars

(***************************************************************************)
(* The stages on their own, started from persistent states earlier runs    *)
(* of the pipeline leave behind: rows written by upsert_cold_case from     *)
(* parsed documents, queues written by write_pending, files written by     *)
(* downloadPDFs.                                                           *)
(***************************************************************************)
PriorStores ==
  { EmptyStore,
    upsert_cold_case(EmptyStore, ParsedCase(Text1, COLD)),
    upsert_cold_case(EmptyStore, ParsedCase(Text1, SOLVED)),
    upsert_cold_case(EmptyStore, ParsedCase(Text2, WARRANT)),
    upsert_cold_case(EmptyStore, ParsedCase(TextJones, WARRANT)),
    upsert_cold_case(upsert_cold_case(EmptyStore, ParsedCase(Text1, COLD)),
                     ParsedCase(Text3, COLD)) }

PriorLeads ==
  { Lead(BASE \o <<"/">> \o SOLVED \o <<"/">> \o Doc1, SOLVED),
    Lead(BASE \o <<"/","c","/">> \o Doc1, COLD),
    Lead(BASE \o <<"/">> \o WARRANT \o <<"/">> \o Doc2, WARRANT) }

PriorQueues ==
  {QueueAbsent, QueueTorn, QueueJson(<<>>)}
    \cup {QueueJson(<<a>>) : a \in PriorLeads}
    \cup {QueueJson(<<ab[1], ab[2]>>) :
            ab \in {p \in PriorLeads \X PriorLeads : p[1].name # p[2].name}}

\* the cached files: any of the documents, for any of the given names
Caches(names) ==
  UNION {[ns -> Texts] : ns \in SUBSET names}

\* one invocation of pullAllData, from any of these states
InitPull ==
  \E s \in PriorStores, docs \in Sites :
    \E q \in {QueueAbsent} \cup {x \in PriorQueues : Len(x.data) = 2} :
      \E c \in {EmptyCache, [n \in {Doc1} |-> Text1]} :
        Idle(s, q, c, docs) /\ NoStudy

PullOnce == runs = 0 /\ PullStart

NextPull ==
  \/ PullOnce \/ GetURLsError \/ GetURLsNot200 \/ GetURLsOk
  \/ ScanLink \/ ScanDone
  \/ DownloadCached \/ DownloadOk \/ DownloadFailed
  \/ PullWriteOpen \/ PullWriteDump
  \/ Crash

SpecPull == InitPull /\ [][NextPull]_vars

InitParse ==
  \E s \in {st \in PriorStores : Cardinality(DOMAIN st) < 2}, q \in PriorQueues :
    \E c \in Caches(Keys(q.data)) :
      Idle(s, q, c, CHOOSE docs \in Sites : docs[Doc1] = Text1) /\ NoStudy

NextParse ==
  \/ ParseStart \/ ParseLoad \/ ParseOneStep \/ ParseOneStoreError
  \/ ParseCommit \/ ParseCommitFail
  \/ ParseWriteOpen \/ ParseWriteDump
  \/ Crash

SpecParse == InitParse /\ [][NextParse]_vars

(***************************************************************************)
(* findRecord and upsert_cold_case on their own.                           *)
(***************************************************************************)
\* every token of one or two digits, and some of four
YearTokens ==
  {<<Digits[a]>> : a \in 1..10}
    \cup {<<Digits[a], Digits[b]>> : a \in 1..10, b \in 1..10}
    \cup { <<"2","0","1","4">>, <<"1","9","8","5">>, <<"1","9","9","9">> }

InitFind ==
  /\ \E s \in PriorStores :
       Idle(s, QueueAbsent, EmptyCache, CHOOSE docs \in Sites : docs[Doc1] = Text1)
  /\ \E tok \in YearTokens, sur \in {Surname1, Surname2} :
       probe = [kind |-> "find", token |-> tok,
                pdfName |-> tok \o <<"-">> \o sur \o PDF_EXT]
  /\ result = NoProbe

\* exists, status = findRecord(pdfName, session)
FindStep ==
  /\ probe.kind = "find" /\ result.kind = "none"
  /\ result' = [kind |-> "find",
                window |-> YearWindow(probe.pdfName),
                found |-> findRecord(probe.pdfName, store),
                storeAfter |-> store]
  /\ UNCHANGED <<store, txn, queue, cache, site, pc, cases, i, downloaded,
                 processed_keys, scanned, runs, crashes, outcome, error,
                 qBefore, storeBefore, fetchFailed, parseFailed, lastScan,
                 lastParse, committed, crashAt, epoch, epochOpen, probe,
                 cacheBefore, crawled, requested, sinceRequest>>

NextFind == FindStep

SpecFind == InitFind /\ [][NextFind]_vars

Statuses == {SOLVED, WARRANT, COLD}

\* records parseOne builds, and one that lacks the required incident date
UpsertRecords ==
  {ParsedCase(t, st) : t \in {Text1, Text2, Text3, TextJones}, st \in Statuses}
    \cup {[ParsedCase(Text1, COLD) EXCEPT !.incident_date = None]}

InitUpsert ==
  /\ \E s \in PriorStores :
       Idle(s, QueueAbsent, EmptyCache, CHOOSE docs \in Sites : docs[Doc1] = Text1)
  /\ \E r \in UpsertRecords : probe = [kind |-> "upsert", parsed_case |-> r]
  /\ result = NoProbe

\* upsert_cold_case(session, parsed_case) and commit; a statement that raises
\* is rolled back
UpsertStep ==
  /\ probe.kind = "upsert" /\ result.kind \in {"none", "once"}
  /\ store' = IF UpsertRaises(probe.parsed_case) THEN store
              ELSE upsert_cold_case(store, probe.parsed_case)
  /\ txn' = store'
  /\ result' = IF result.kind = "none"
               THEN [kind |-> "once", once |-> store', raised |-> UpsertRaises(probe.parsed_case)]
               ELSE [kind |-> "twice", once |-> result.once, raised |-> result.raised]
  /\ UNCHANGED <<queue, cache, site, pc, cases, i, downloaded,
                 processed_keys, scanned, runs, crashes, outcome, error,
                 qBefore, storeBefore, fetchFailed, parseFailed, lastScan,
                 lastParse, committed, crashAt, epoch, epochOpen, probe,
                 cacheBefore, crawled, requested, sinceRequest>>

NextUpsert == UpsertStep

SpecUpsert == InitUpsert /\ [][NextUpsert]_vars

(***************************************************************************)
(* The case-number capture and normalization of parseOne on their own: a    *)
(* document whose text after the Case label is year, separator characters, *)
(* id, with or without a standalone line the fallback pattern matches.     *)
(***************************************************************************)
CaseYears == { <<"1","4">>, <<"2","0","1","4">> }
CaseIds == { <<"0","0","2","3","1">>, <<"7">> }
CaseSepChars == {"-", ENDASH, " ", "\t"}
CaseSeps == UNION {[1..n -> CaseSepChars] : n \in 1..MaxSep}
CaseLines == {None, <<"2","0","1","4","-","0","0","9","9","9">>}

InitCase ==
  /\ Idle(EmptyStore, QueueAbsent, EmptyCache, CHOOSE docs \in Sites : docs[Doc1] = Text1)
  /\ \E y \in CaseYears, sep \in CaseSeps, id \in CaseIds, ln \in CaseLines :
       probe = [kind |-> "case", tail |-> y \o sep \o id, line |-> ln]
  /\ result = NoProbe

\* parseOne(session, case) on the document, and commit
CaseStep ==
  /\ probe.kind = "case" /\ result.kind = "none"
  /\ LET text == [Text1 EXCEPT !.caseTail = probe.tail, !.line = probe.line]
         case == Lead(BASE \o <<"/","c","/">> \o Doc1, COLD)
         r == parseOne(store, case, [n \in {Doc1} |-> text])
     IN /\ store' = r.txn /\ txn' = r.txn
        /\ result' = [kind |-> "case", raw |-> CaseNumberRaw(text), ret |-> r.ret]
  /\ UNCHANGED <<queue, cache, site, pc, cases, i, downloaded,
                 processed_keys, scanned, runs, crashes, outcome, error,
                 qBefore, storeBefore, fetchFailed, parseFailed, lastScan,
                 lastParse, committed, crashAt, epoch, epochOpen, probe,
                 cacheBefore, crawled, requested, sinceRequest>>

NextCase == CaseStep

SpecCase == InitCase /\ [][NextCase]_vars

(***************************************************************************)
(* One link of the listing over successive crawls: the loop body of        *)
(* getURLs for the link, parseOne and commit for the lead it emits, and    *)
(* the loop body again.  The ids carry 2-digit and 4-digit year tokens.    *)
(***************************************************************************)
Doc4 == <<"2","0","1","4","-">> \o Surname1 \o PDF_EXT
CrawlNames == {Doc1, Doc2, Doc4}
CrawlHrefs == {dir \o n : dir \in Dirs, n \in CrawlNames}

\* the document the site serves under a name
DocText(n) == IF n = Doc2 THEN TextJones ELSE Text1

InitCrawl ==
  /\ \E s \in PriorStores :
       Idle(s, QueueAbsent, EmptyCache, CHOOSE docs \in Sites : docs[Doc1] = Text1)
  /\ \E href \in CrawlHrefs : probe = [kind |-> "crawl", pdfUrl |-> BASE \o href]
  /\ result = NoProbe

\* the loop body of getURLs for pdfUrl: what findRecord answers and the
\* source_status of the lead added, None when none is added or findRecord raises
CrawlLink(pdfUrl, s) ==
  LET found == findRecord(LastSegment(pdfUrl), s)
  IN [found |-> found,
      emit |-> IF found.raised THEN None ELSE Emit(pdfUrl, found)]

CrawlStep ==
  /\ probe.kind = "crawl" /\ result.kind = "none"
  /\ result' = [kind |-> "crawl", first |-> CrawlLink(probe.pdfUrl, store)]
  /\ UNCHANGED <<store, txn, queue, cache, site, pc, cases, i, downloaded,
                 processed_keys, scanned, runs, crashes, outcome, error,
                 qBefore, storeBefore, fetchFailed, parseFailed, lastScan,
                 lastParse, committed, crashAt, epoch, epochOpen, probe,
                 cacheBefore, crawled, requested, sinceRequest>>

\* the emitted lead is downloaded, given to parseOne, and committed
CrawlParse ==
  /\ result.kind = "crawl" /\ result.first.emit # None
  /\ LET case == Lead(probe.pdfUrl, result.first.emit)
         r == parseOne(store, case, [n \in {case.name} |-> DocText(n)])
     IN /\ store' = r.txn /\ txn' = r.txn
        /\ result' = [kind |-> "parsed", first |-> result.first, ret |-> r.ret]
  /\ UNCHANGED <<queue, cache, site, pc, cases, i, downloaded,
                 processed_keys, scanned, runs, crashes, outcome, error,
                 qBefore, storeBefore, fetchFailed, parseFailed, lastScan,
                 lastParse, committed, crashAt, epoch, epochOpen, probe,
                 cacheBefore, crawled, requested, sinceRequest>>

\* the next crawl meets the same link
Recrawl ==
  /\ result.kind = "parsed"
  /\ result' = [kind |-> "recrawl", first |-> result.first, ret |-> result.ret,
                second |-> CrawlLink(probe.pdfUrl, store)]
  /\ UNCHANGED <<store, txn, queue, cache, site, pc, cases, i, downloaded,
                 processed_keys, scanned, runs, crashes, outcome, error,
                 qBefore, storeBefore, fetchFailed, parseFailed, lastScan,
                 lastParse, committed, crashAt, epoch, epochOpen, probe,
                 cacheBefore, crawled, requested, sinceRequest>>

NextCrawl == CrawlStep \/ CrawlParse \/ Recrawl

SpecCrawl == InitCrawl /\ [][NextCrawl]_vars

(***************************************************************************)
(* Properties.                                                             *)
(***************************************************************************)
QueuedNames(q) == Keys(load_pending(q))

\* C1: a lead whose document fetch failed in downloadPDFs (request error or
\* content-type rejection) is in the persisted queue once pullAllData has
\* completed.
C1_FailedFetchStaysQueued ==
  outcome = "pull_done" => \A n \in fetchFailed : n \in QueuedNames(queue)

\* C2: every lead that was in the persisted queue before pullAllData ran is
\* still in it after pullAllData returned, whatever the listing held.
C2_PullRemovesNoLead ==
  outcome = "pull_done" => QueuedNames(qBefore) \subseteq QueuedNames(queue)

\* C3: when parseAllPDFs has run, a lead is gone from the persisted queue exactly
\* if parseOne succeeded for it in this run and its record was committed: every
\* lead parseOne failed on is still queued, every lead whose record was
\* persisted is not; a run that raised persisted no record and removed no lead.
C3_RemovedIffParsed ==
  /\ outcome = "parse_done" =>
       /\ Range(processed_keys) \cup parseFailed = QueuedNames(qBefore)
       /\ parseFailed \subseteq QueuedNames(queue)
       /\ Range(processed_keys) \cap QueuedNames(queue) = {}
       /\ queue.state = "json"
       /\ \A j \in 1..Len(queue.data) :
            \E k \in 1..Len(qBefore.data) : queue.data[j] = qBefore.data[k]
       /\ \A j \in 1..Len(qBefore.data) :
            qBefore.data[j].name \in Range(processed_keys) =>
              ParsedCase(cache[qBefore.data[j].name],
                         qBefore.data[j].source_status).case_number \in DOMAIN store
  /\ outcome = "parse_raised" => queue = qBefore /\ store = storeBefore

C3_Witness ==
  /\ outcome = "parse_done"
  /\ processed_keys # <<>>
  /\ \E n \in parseFailed : n \notin DOMAIN cache
  /\ Len(queue.data) < Len(qBefore.data)

\* the document parseOne was last given lacks a required field
LastLacksRequired ==
  /\ lastParse.name \in DOMAIN cache
  /\ LET text == cache[lastParse.name]
     IN \/ Falsy(CaseNumberRaw(text))
        \/ Falsy(extract(text.date))
        \/ Falsy(extract(text.location))

\* C4: parseOne on a document that lacks the case number, the incident date or
\* the location issues no upsert and does not report success, and no row of
\* the Record Store, committed or pending, lacks one of the three fields.
C4_NoPartialRecord ==
  /\ LastLacksRequired =>
       /\ ~lastParse.wrote
       /\ lastParse.name \notin Range(processed_keys)
       /\ pc = "parse" => txn = store \/ processed_keys # <<>>
  /\ \A k \in DOMAIN store : NotNullOk(store[k])
  /\ \A k \in DOMAIN txn : NotNullOk(txn[k])

C4_Witness ==
  /\ LastLacksRequired
  /\ lastParse.why = "nodate"
  /\ lastParse.name \in parseFailed
  /\ pc = "parse"

\* C5: parseAllPDFs rewrites the persisted queue only after session.commit() has
\* returned; when a store operation or the commit raises, the run's writes are
\* rolled back, the exception reaches the caller, and the persisted queue is as
\* it was before the run.
C5_QueueAfterCommit ==
  /\ queue # qBefore => committed
  /\ committed => store = txn
  /\ outcome = "parse_raised" =>
       /\ error # "none"
       /\ store = storeBefore
       /\ txn = storeBefore
       /\ queue = qBefore

C5_Witness ==
  /\ outcome = "parse_raised"
  /\ error = "StoreError"
  /\ processed_keys # <<>>
  /\ lastParse.wrote
  /\ queue.state = "json"

\* C6: no error in processing one document aborts the batch: unless the store
\* itself fails (or the queue file cannot be read), parseAllPDFs gives every
\* lead of the queue to parseOne, commits, and removes exactly the successful
\* leads.
C6_NoDocumentAbortsBatch ==
  outcome \in {"parse_done", "parse_raised"}
    /\ error \notin {"StoreError", "JSONDecodeError"} =>
      /\ outcome = "parse_done"
      /\ Range(processed_keys) \cup parseFailed = QueuedNames(qBefore)
      /\ committed
      /\ queue = QueueJson(remove_processed(load_pending(qBefore), processed_keys))

\* an uninterrupted parseAllPDFs over the leads from session state t:
\* [ok: no lead raises, txn: the rows it commits, keys: the leads it removes]
RECURSIVE RunLeads(_, _, _)
RunLeads(t, leads, files) ==
  IF leads = <<>> THEN [ok |-> TRUE, txn |-> t, keys |-> <<>>]
  ELSE LET r == parseOne(t, Head(leads), files)
       IN IF r.ret = "raise" THEN [ok |-> FALSE, txn |-> t, keys |-> <<>>]
          ELSE LET rest == RunLeads(r.txn, Tail(leads), files)
               IN [ok |-> rest.ok, txn |-> rest.txn,
                   keys |-> IF r.ret = "True"
                            THEN <<Head(leads).name>> \o rest.keys
                            ELSE rest.keys]

\* what one uninterrupted run makes of the state the series of runs began in
Uninterrupted == RunLeads(epoch.store, load_pending(epoch.queue), cache)

\* C7: an extraction run interrupted before the commit, or after it and before
\* the queue is rewritten, leaves the persisted queue as it was and the store
\* either as it was or as the complete run leaves it; a run re-invoked from
\* there that completes ends in the store and the queue of an uninterrupted run.
\* The runs meant are those that began from the queue the series began with:
\* a run that follows one killed inside write_pending begins from the
\* truncated file instead, an interruption point the claim does not name.
C7_ResumableRun ==
  /\ outcome = "parse_done" =>
       /\ Uninterrupted.ok
       /\ store = Uninterrupted.txn
       /\ queue = QueueJson(remove_processed(load_pending(epoch.queue),
                                             Uninterrupted.keys))
  /\ outcome = "crashed" /\ crashAt \in {"load", "parse"}
       /\ qBefore = epoch.queue =>
       /\ queue = epoch.queue
       /\ store = epoch.store \/ (Uninterrupted.ok /\ store = Uninterrupted.txn)
  /\ outcome = "crashed" /\ crashAt = "parse_write" =>
       /\ queue = epoch.queue
       /\ Uninterrupted.ok /\ store = Uninterrupted.txn

\* a run completes that was re-invoked after a run died between its commit and
\* its queue rewrite: it upserted again rows that were already committed
C7_Witness ==
  /\ outcome = "parse_done"
  /\ crashes > 0
  /\ processed_keys # <<>>
  /\ storeBefore # epoch.store
  /\ storeBefore = store
  /\ qBefore = epoch.queue
  /\ queue # qBefore

\* C8: findRecord maps the leading numeric token y of the document id so:
\* y < 10 gives 2000+y; 10 <= y <= 69 is rejected, result (False, "N/A");
\* 70 <= y <= 99 gives 1900+y; a 4-digit token is the query year unchanged.
C8_YearWindowing ==
  result.kind = "find" =>
    LET y == IntOf(probe.token)
        rejected == /\ ~result.window.ok
                    /\ ~result.found.raised
                    /\ ~result.found.exists /\ result.found.status = NA
    IN /\ Len(probe.token) <= 2 /\ y < 10 =>
            result.window = [ok |-> TRUE, year |-> 2000 + y]
       /\ Len(probe.token) <= 2 /\ 10 <= y /\ y <= 69 => rejected
       /\ Len(probe.token) <= 2 /\ 70 <= y /\ y <= 99 =>
            result.window = [ok |-> TRUE, year |-> 1900 + y]
       /\ Len(probe.token) = 4 => result.window = [ok |-> TRUE, year |-> y]

\* the status category a URL is classified as: solved, warrant, else cold
Category(pdfUrl) ==
  IF Contains(pdfUrl, SOLVED) THEN SOLVED
  ELSE IF Contains(pdfUrl, WARRANT) THEN WARRANT
  ELSE COLD

\* getURLs scanned a PDF link and findRecord answered
Scanned == lastScan.pdf /\ ~lastScan.raised

\* C9 as claimed: a lead is emitted for a PDF link exactly if findRecord reports
\* no record, or a record whose status differs from the category of the URL,
\* for each of solved, warrant and cold; the lead carries that category.
C9_EmitIffNewOrChanged ==
  Scanned =>
    /\ lastScan.emitted <=>
         (~lastScan.exists \/ lastScan.status # Category(lastScan.href))
    /\ lastScan.emitted => lastScan.source_status = Category(lastScan.href)

\* C9 as amended: a lead is emitted exactly if findRecord reports no record, or
\* the URL contains "solved" and the stored status is not solved, or the URL
\* contains "warrant" and the stored status is not warrant; a link classified
\* cold is emitted only when no record is reported.  The lead carries the
\* category of the URL, except that a URL containing both words whose record
\* is already solved is emitted as warrant.
C9_EmitAmended ==
  Scanned =>
    /\ lastScan.emitted <=>
         \/ ~lastScan.exists
         \/ Contains(lastScan.href, SOLVED) /\ lastScan.status # SOLVED
         \/ Contains(lastScan.href, WARRANT) /\ lastScan.status # WARRANT
    /\ Category(lastScan.href) = COLD => (lastScan.emitted <=> ~lastScan.exists)
    /\ lastScan.emitted =>
         lastScan.source_status =
           IF /\ Contains(lastScan.href, SOLVED) /\ Contains(lastScan.href, WARRANT)
              /\ lastScan.exists /\ lastScan.status = SOLVED
           THEN WARRANT ELSE Category(lastScan.href)
    /\ pc = "scan" /\ lastScan.emitted =>
         \E j \in 1..Len(cases) :
            cases[j] = Lead(lastScan.href, lastScan.source_status)

\* a link classified cold whose record is stored with another status: no lead
C9_Witness ==
  /\ Scanned
  /\ Category(lastScan.href) = COLD
  /\ lastScan.exists /\ lastScan.status = SOLVED
  /\ ~lastScan.emitted
  /\ pc = "scan"

\* C10: upsert_cold_case applied twice with the same record leaves the store
\* that applying it once leaves.
C10_UpsertIdempotent ==
  result.kind = "twice" => store = result.once

\* the record met a stored row of its case number, and changed it
C10_Witness ==
  /\ result.kind = "twice"
  /\ ~result.raised
  /\ probe.parsed_case.case_number \in DOMAIN storeBefore
  /\ store # storeBefore
  /\ \E col \in Columns : probe.parsed_case[col] = None

\* C11: upsert_cold_case on a record whose case number is stored keeps, for
\* every column that is None in the incoming record, the stored value, and sets
\* the other columns to the incoming values; a record whose case number is not
\* stored is inserted as it is; no other row of the store changes.
C11_UpsertKeepsKnownValues ==
  result.kind \in {"once", "twice"} /\ ~result.raised =>
    LET r == probe.parsed_case
        k == r.case_number
    IN /\ DOMAIN store = DOMAIN storeBefore \cup {k}
       /\ \A j \in DOMAIN storeBefore \ {k} : store[j] = storeBefore[j]
       /\ k \in DOMAIN storeBefore =>
            \A col \in Columns :
               store[k][col] = IF r[col] = None \/ col = "case_number"
                               THEN storeBefore[k][col] ELSE r[col]
       /\ k \notin DOMAIN storeBefore => store[k] = r

\* a record with None columns was upserted over a row that knows them, in a
\* store that holds another row
C11_Witness ==
  /\ result.kind = "once" /\ ~result.raised
  /\ probe.parsed_case.case_number \in DOMAIN storeBefore
  /\ \E col \in Columns :
        /\ probe.parsed_case[col] = None
        /\ storeBefore[probe.parsed_case.case_number][col] # None
        /\ store[probe.parsed_case.case_number][col] # None
  /\ store # storeBefore
  /\ Cardinality(DOMAIN store) > 1

\* C12: saving the queue is atomic: at every point of write_pending, a crash
\* in the middle of it included, load_pending reads the complete previous
\* mapping or the complete new one, never an empty or unreadable file.
C12_AtomicSave ==
  /\ queue.state # "torn"
  /\ pc = "pull_dump" =>
       load_pending(queue) = load_pending(qBefore) \/ load_pending(queue) = cases

\* the constraints on a stored row
WellFormed(row) ==
  /\ row.incident_date # None
  /\ row.location # None /\ row.location # <<>>
  /\ row.sex \in {<<"M">>, <<"F">>, NA}
  /\ row.race \in {WHITE, BLACK, HISPANIC, ASIAN, PACIFIC, NATIVE, OTHER_RACE}
  /\ row.status \in Statuses

\* the document parseOne was last given has the required fields but no sex or
\* race value of the maps
LastUnmapped ==
  /\ lastParse.name \in DOMAIN cache
  /\ LET text == cache[lastParse.name]
     IN /\ text # Unconvertible
        /\ ParseOutcome(text) = "ok"
        /\ \/ Falsy(extract(text.sex))
           \/ Title(Strip(extract(text.sex))) \notin
                 {<<"F","e","m","a","l","e">>, <<"M","a","l","e">>}
           \/ Falsy(extract(text.race))
           \/ Title(Strip(extract(text.race))) \notin
                 {WHITE, BLACK, HISPANIC, ASIAN, PACIFIC, NATIVE, CAUCASIAN}

\* C13: every row of the Record Store, committed or pending, has an incident
\* date and a location, sex M, F or N/A, race one of the fixed categories and
\* status solved, warrant or cold; a document whose sex or race is absent or
\* unmapped is not failed by parseOne.
C13_StoredRecordsWellFormed ==
  /\ \A k \in DOMAIN store : WellFormed(store[k])
  /\ \A k \in DOMAIN txn : WellFormed(txn[k])
  /\ LastUnmapped =>
       /\ lastParse.why \in {"ok", "StoreError"}
       /\ lastParse.why = "ok" => lastParse.name \in Range(processed_keys)

\* a document without a sex and with an unmapped race was parsed and its row,
\* carrying the defaults, committed
C13_Witness ==
  /\ outcome = "parse_done"
  /\ LastUnmapped /\ lastParse.why = "ok"
  /\ cache[lastParse.name].sex = None
  /\ store # storeBefore
  /\ \E k \in DOMAIN store : store[k].sex = NA /\ store[k].race = OTHER_RACE

\* C14: whatever the listing request gives (network error, timeout, error
\* status, any successful status), getURLs hands its caller a mapping and
\* raises nothing: pullAllData never ends by raising.
C14_ListingNonFatal ==
  /\ outcome # "pull_raised"
  /\ pc \in {"scan", "download", "pull_dump"} => outcome = "running"

\* digits, one hyphen, digits
IsCanonical(k) ==
  LET p == Split(k, "-") IN Len(p) = 2 /\ IsInt(p[1]) /\ IsInt(p[2])

\* C15: a case number written with en-dash and space separators is stored in
\* the form YYYY-NNNNN: the document reading "2014 \u2013 00231" (space, en
\* dash, space) is stored under 2014-00231, and every case number parseOne
\* persists is digits, one hyphen, digits.
C15_CaseNumberCanonical ==
  result.kind = "case" =>
    /\ probe.tail = <<"2","0","1","4"," ",ENDASH," ","0","0","2","3","1">>
         /\ probe.line = None =>
           <<"2","0","1","4","-","0","0","2","3","1">> \in DOMAIN store
    /\ \A k \in DOMAIN store : IsCanonical(k)

\* downloadPDFs is about to call requests.get for the lead it is at
NextIsRequest ==
  pc = "download" /\ i <= Len(cases) /\ Current.name \notin DOMAIN cache

\* C16: two successive network retrievals of downloadPDFs are separated by a
\* delay of at least RATE_LIMIT_SECONDS, however the earlier one ended: when
\* a retrieval is about to be issued after an earlier one, at least that
\* delay has been slept since the earlier one returned.
C16_RateLimited ==
  NextIsRequest /\ requested # {} => sinceRequest >= RATE_LIMIT_SECONDS

\* C17: findRecord is total and leaves the store alone: for every document id
\* and store it returns without raising, (True, stored status) when one
\* record matches the surname and the derived year, and (False, "N/A")
\* otherwise: no match, several matches, unparseable year token.
C17_FindTotal ==
  result.kind = "find" =>
    LET rows == IF result.window.ok THEN FindMatches(probe.pdfName, store) ELSE {}
    IN /\ ~result.found.raised
       /\ store = result.storeAfter /\ store = storeBefore
       /\ result.found = findRecord(probe.pdfName, store)
       /\ Cardinality(rows) = 1 =>
            /\ result.found.exists
            /\ \A k \in rows : result.found.status = store[k].status
       /\ Cardinality(rows) # 1 =>
            ~result.found.exists /\ result.found.status = NA

\* the year a document id encodes: a 4-digit token as it is, a 2-digit token
\* in its century
EncodedYear(pdfName) ==
  LET token == Split(pdfName, "-")[1]
  IN IF Len(token) = 4 THEN IntOf(token)
     ELSE IF IntOf(token) < 70 THEN 2000 + IntOf(token) ELSE 1900 + IntOf(token)

\* the rows that make a link's document current: status the category of the
\* link, victim containing the surname of the id, incident year that of the id
CurrentRows(pdfUrl, s) ==
  LET pdfName == LastSegment(pdfUrl)
      lastName == Replace(Split(pdfName, "-")[2], PDF_EXT, <<>>)
  IN {k \in DOMAIN s :
        /\ s[k].status = Category(pdfUrl)
        /\ s[k].victim # None
        /\ Contains(LowerStr(s[k].victim), LowerStr(lastName))
        /\ YearOf(s[k].incident_date) = EncodedYear(pdfName)}

\* C18: a document whose record is stored with the status its link is
\* classified as gets no lead from a crawl, for ids with a 2-digit and with a
\* 4-digit year token; and once a status-change lead was parsed successfully,
\* the stored status is the new category and the next crawl emits no lead.
C18_CurrentNotReemitted ==
  /\ result.kind = "crawl" /\ CurrentRows(probe.pdfUrl, store) # {} =>
       result.first.emit = None
  /\ result.kind = "recrawl" /\ result.first.found.exists /\ result.ret = "True" =>
       /\ CurrentRows(probe.pdfUrl, store) # {}
       /\ result.second.emit = None

\* C19: a failed or rejected fetch is never cached: a cached file was there
\* before the run or was written from the response to a request that
\* succeeded; no lead whose fetch failed has a file; every lead of the mapping
\* downloadPDFs builds, and of the queue pullAllData writes, has a file.
C19_FailedFetchNotCached ==
  /\ \A n \in DOMAIN cache :
        \/ n \in DOMAIN cacheBefore
        \/ n \in requested /\ n \notin fetchFailed /\ cache[n] = site[n]
  /\ fetchFailed \cap DOMAIN cache = {}
  /\ pc \in {"download", "pull_dump"} => Keys(downloaded) \subseteq DOMAIN cache
  /\ outcome = "pull_done" => QueuedNames(queue) \subseteq DOMAIN cache

\* pullAllData completed a run in which one fetch failed and another was
\* written to the cache and queued
C19_Witness ==
  /\ outcome = "pull_done"
  /\ fetchFailed # {}
  /\ \E n \in DOMAIN cache : n \notin DOMAIN cacheBefore /\ n \in QueuedNames(queue)

\* the leads of a mapping whose file was in the cache when the run started
CachedLeads(m) == {m[j] : j \in {x \in 1..Len(m) : m[x].name \in DOMAIN cacheBefore}}

\* C20: for a lead whose file is already in the local cache downloadPDFs
\* issues no request, leaves the file as it is, and keeps the lead unchanged
\* in its result, so that pullAllData writes it to the queue.
C20_CachedLeadKept ==
  /\ requested \cap DOMAIN cacheBefore = {}
  /\ \A n \in DOMAIN cacheBefore : n \in DOMAIN cache /\ cache[n] = cacheBefore[n]
  /\ pc = "download" =>
       \A j \in 1..(i - 1) :
          cases[j].name \in DOMAIN cacheBefore => cases[j] \in Range(downloaded)
  /\ pc = "pull_dump" => CachedLeads(crawled) \subseteq Range(cases)
  /\ outcome = "pull_done" => CachedLeads(crawled) \subseteq Range(queue.data)

\* pullAllData completed a run whose listing gave a lead with a cached file
\* and a lead that had to be requested
C20_Witness ==
  /\ outcome = "pull_done"
  /\ CachedLeads(crawled) # {}
  /\ requested # {}
  /\ CachedLeads(crawled) \subseteq Range(queue.data)

====
